---- MODULE Spec2Model ----
(***************************************************************************)
(* Model of the file-share CLI (src/src/cli.ts): class Cli with its upload *)
(* flow (handleFileUpload), its download flow (handleFileDownload) and     *)
(* run.  Every await of the handlers is a step of the state machine.  The  *)
(* collaborators used by Cli (DBService, BCrypt, GoogleDriveService,       *)
(* generateSharedKey) are modelled at their interface.                     *)
(***************************************************************************)
EXTENDS Integers, Sequences, FiniteSets, TLC

\* ---------------------------------------------------------------- bounds
MaxRuns == 3
MaxPasscode == 2
MaxSalt == 1
MaxError == 1

\* ------------------------------------------------------------ value sets
EmptyPasscode == 0
Passcodes == 0..MaxPasscode
Salts == 1..MaxSalt
Errors == 1..MaxError
WrongKey == 0
EnteredKeys == 0..MaxRuns
EmptyName == 0
FileNameError == 0

NoHash == [salt |-> 0, digest |-> 0]
NoRecord == [hashedPassCode |-> NoHash, fileId |-> 0]

\* ----------------------------------------------------------- collaborators
\* BCrypt: salted one-way digest, the salt embedded in the digest.
DigestModulus == 31
SaltFactor == 7
Digest(p, salt) == (p + SaltFactor * salt) % DigestModulus

hashPasscode(p, salt) == [salt |-> salt, digest |-> Digest(p, salt)]

hashRejects(p) == p = EmptyPasscode

comparePasscode(p, hashed) == Digest(p, hashed.salt) = hashed.digest

\* generateSharedKey: every call yields a key never issued before.
generateSharedKey(n) == n

\* GoogleDriveService.uploadFile: the backend issues a handle of its own for
\* every file it stores; handles and shared keys are unrelated values.
HandleBase == 100
newFileId(n) == HandleBase + n

\* DBService: insert of a full record, point lookup by shared key.
createSecureFile(s, hashed, key, id) ==
  [k \in DOMAIN s \cup {key} |->
     IF k = key THEN [hashedPassCode |-> hashed, fileId |-> id] ELSE s[k]]

getSecureFile(s, key) == IF key \in DOMAIN s THEN s[key] ELSE NoRecord

\* ---------------------------------------------------------------- output
Msg(kind, text, arg) == [kind |-> kind, text |-> text, arg |-> arg]
Start(text) == Msg("start", text, 0)
Stop(text, arg) == Msg("stop", text, arg)
Note(text, title) == Msg("note:" \o title, text, 0)
ConsoleError(text, err) == Msg("console.error", text, err)

\* What the run tells the user about the work it started last: the output
\* that follows the last s.start.
LastStart(o) ==
  CHOOSE i \in 0..Len(o) :
    /\ (i > 0 => o[i].kind = "start")
    /\ \A j \in (i + 1)..Len(o) : o[j].kind # "start"
Report(o) == SubSeq(o, LastStart(o) + 1, Len(o))

\* ----------------------------------------------------------------- state
\* store, nextKey, nextFileId : the record store, the key generator and the
\*   storage backend; they outlive a run of the program.
\* runs, pc, action           : number of runs started, the position of the
\*   current run, the flow chosen in select.
\* passcode .. fileName       : the locals of the two handlers.
\* spinning, out, escaped     : the spinner, what the run printed, and the
\*   error that left run ("none" when there is none).
\* cause, driveCalls, dbCalls, store0 : observation of the current run: why it
\*   failed, the calls it made to the storage backend and to the record
\*   store, and the record store when it began.
\* shownKeys, issued, failedKeys, reported : observation across runs: the
\*   keys shown to users, the (passcode, file id) of every completed upload,
\*   the keys of runs whose uploadFile failed, the reports of failed runs.
VARIABLES
  store, nextKey, nextFileId, runs, pc, action,
  passcode, sharedKey, hashedPassCode, enteredPasscode, file,
  validatePassCode, fileId, fileName,
  spinning, out, escaped,
  cause, driveCalls, dbCalls, store0,
  shownKeys, issued, failedKeys, reported

locals == <<passcode, sharedKey, hashedPassCode, enteredPasscode, file,
            validatePassCode, fileId, fileName>>
history == <<shownKeys, issued, failedKeys, reported>>
vars == <<store, nextKey, nextFileId, runs, pc, action, locals, spinning, out, escaped,
          cause, driveCalls, dbCalls, store0, history>>

Init ==
  /\ store = [k \in {} |-> NoRecord]
  /\ nextKey = 1
  /\ nextFileId = 1
  /\ runs = 0
  /\ pc = "idle"
  /\ action = "none"
  /\ passcode = EmptyPasscode
  /\ sharedKey = WrongKey
  /\ hashedPassCode = NoHash
  /\ enteredPasscode = EmptyPasscode
  /\ file = NoRecord
  /\ validatePassCode = FALSE
  /\ fileId = 0
  /\ fileName = EmptyName
  /\ spinning = FALSE
  /\ out = <<>>
  /\ escaped = "none"
  /\ cause = "none"
  /\ driveCalls = <<>>
  /\ dbCalls = <<>>
  /\ store0 = store
  /\ shownKeys = {}
  /\ issued = [k \in {} |-> [passcode |-> 0, fileId |-> 0]]
  /\ failedKeys = {}
  /\ reported = {}

\* ------------------------------------------------------------------- run
\* A new invocation of the program: constructor, intro and select.
Run ==
  /\ pc \in {"idle", "exited", "crashed"}
  /\ runs < MaxRuns
  /\ runs' = runs + 1
  /\ \E a \in {"upload", "download"} :
       /\ action' = a
       /\ pc' = IF a = "upload" THEN "getFilePathAndPassCode" ELSE "askCredentials"
  /\ passcode' = EmptyPasscode
  /\ sharedKey' = WrongKey
  /\ hashedPassCode' = NoHash
  /\ enteredPasscode' = EmptyPasscode
  /\ file' = NoRecord
  /\ validatePassCode' = FALSE
  /\ fileId' = 0
  /\ fileName' = EmptyName
  /\ spinning' = FALSE
  /\ out' = <<Msg("intro", "Choose an option:", 0)>>
  /\ escaped' = "none"
  /\ cause' = "none"
  /\ driveCalls' = <<>>
  /\ dbCalls' = <<>>
  /\ store0' = store
  /\ UNCHANGED <<store, nextKey, nextFileId, history>>

\* outro, then the process exits.
Outro ==
  /\ pc = "outro"
  /\ pc' = "exited"
  /\ reported' = IF cause = "none" THEN reported
                  ELSE reported \cup {[cause |-> cause, report |-> Report(out)]}
  /\ UNCHANGED <<store, nextKey, nextFileId, runs, action, locals, spinning, out, escaped,
                 cause, driveCalls, dbCalls, store0, shownKeys, issued, failedKeys>>


\* ---------------------------------------------------------------- upload
\* getFilePathAndPassCode: the prompts, then the shared key is generated and
\* shown by the spinner's stop message.
GetFilePathAndPassCode ==
  /\ pc = "getFilePathAndPassCode"
  /\ \E p \in Passcodes : passcode' = p
  /\ sharedKey' = generateSharedKey(nextKey)
  /\ nextKey' = nextKey + 1
  /\ out' = out \o <<Start("Generating a shared key..."),
                     Stop("Shared key: ", generateSharedKey(nextKey))>>
  /\ spinning' = FALSE
  /\ shownKeys' = shownKeys \cup {generateSharedKey(nextKey)}
  /\ pc' = "hashPasscode"
  /\ UNCHANGED <<store, nextFileId, runs, action, hashedPassCode, enteredPasscode, file,
                 validatePassCode, fileId, fileName, escaped, cause,
                 driveCalls, dbCalls, store0, issued, failedKeys, reported>>

\* The catch block of handleFileUpload.
UploadCatch(err) ==
  /\ out' = out \o <<Stop("File upload failed!", 0),
                     ConsoleError("Error uploading file:", err)>>
  /\ spinning' = FALSE
  /\ pc' = "outro"

\* Faulty variant: the hasher's rejection is ignored and the upload goes on.
HashPasscodeUnchecked ==
  /\ pc = "hashPasscode"
  /\ \E salt \in Salts : hashedPassCode' = hashPasscode(passcode, salt)
  /\ out' = out \o <<Start("Processing file...")>>
  /\ spinning' = TRUE
  /\ pc' = "uploadFile"
  /\ UNCHANGED <<store, nextKey, nextFileId, runs, action, passcode, sharedKey,
                 enteredPasscode, file, validatePassCode, fileId, fileName,
                 escaped, cause, driveCalls, dbCalls, store0, history>>

\* hashPasscode is awaited outside the try block: its error leaves
\* handleFileUpload and run.
HashPasscode ==
  /\ pc = "hashPasscode"
  /\ IF hashRejects(passcode)
       THEN /\ pc' = "crashed"
            /\ escaped' = "InvalidInput"
            /\ cause' = "invalidinput"
            /\ UNCHANGED <<hashedPassCode, out, spinning>>
       ELSE /\ \E salt \in Salts : hashedPassCode' = hashPasscode(passcode, salt)
            /\ out' = out \o <<Start("Processing file...")>>
            /\ spinning' = TRUE
            /\ pc' = "uploadFile"
            /\ UNCHANGED <<escaped, cause>>
  /\ UNCHANGED <<store, nextKey, nextFileId, runs, action, passcode, sharedKey,
                 enteredPasscode, file, validatePassCode, fileId, fileName,
                 driveCalls, dbCalls, store0, history>>

UploadFileOk ==
  /\ pc = "uploadFile"
  /\ fileId' = newFileId(nextFileId)
  /\ nextFileId' = nextFileId + 1
  /\ driveCalls' = Append(driveCalls, [op |-> "uploadFile",
                                       handle |-> newFileId(nextFileId), ok |-> TRUE])
  /\ pc' = "createSecureFile"
  /\ UNCHANGED <<store, nextKey, runs, action, passcode, sharedKey,
                 hashedPassCode, enteredPasscode, file, validatePassCode,
                 fileName, spinning, out, escaped, cause, dbCalls, store0,
                 history>>

\* Faulty variant: a failed uploadFile falls through to createSecureFile.
UploadFileFailsUnchecked(err) ==
  /\ pc = "uploadFile"
  /\ driveCalls' = Append(driveCalls, [op |-> "uploadFile", handle |-> 0, ok |-> FALSE])
  /\ cause' = "uploadfail"
  /\ failedKeys' = failedKeys \cup {sharedKey}
  /\ pc' = "createSecureFile"
  /\ UNCHANGED <<store, nextKey, nextFileId, runs, action, locals, spinning, out, escaped,
                 dbCalls, store0, shownKeys, issued, reported>>

UploadFileFails(err) ==
  /\ pc = "uploadFile"
  /\ driveCalls' = Append(driveCalls, [op |-> "uploadFile", handle |-> 0, ok |-> FALSE])
  /\ cause' = "uploadfail"
  /\ failedKeys' = failedKeys \cup {sharedKey}
  /\ UploadCatch(err)
  /\ UNCHANGED <<store, nextKey, nextFileId, runs, action, locals, escaped, dbCalls,
                 store0, shownKeys, issued, reported>>

UploadFile ==
  \/ UploadFileOk
  \/ \E err \in Errors : UploadFileFails(err)

\* Faulty variant: the shared key is stored in the place of the file id.
CreateSecureFileSwapped ==
  /\ pc = "createSecureFile"
  /\ sharedKey \notin DOMAIN store
  /\ store' = createSecureFile(store, hashedPassCode, sharedKey, sharedKey)
  /\ dbCalls' = Append(dbCalls, [op |-> "createSecureFile", key |-> sharedKey,
                                 fileId |-> fileId, ok |-> TRUE])
  /\ out' = out \o <<Stop("File successfully uploaded!", 0),
                     Note("Share the passcode and shared key to the user who will download the file", "info")>>
  /\ spinning' = FALSE
  /\ issued' = [k \in DOMAIN issued \cup {sharedKey} |->
                  IF k = sharedKey THEN [passcode |-> passcode, fileId |-> fileId]
                  ELSE issued[k]]
  /\ pc' = "outro"
  /\ UNCHANGED <<nextKey, nextFileId, runs, action, locals, escaped, cause, driveCalls,
                 store0, shownKeys, failedKeys, reported>>

CreateSecureFileOk ==
  /\ pc = "createSecureFile"
  /\ sharedKey \notin DOMAIN store
  /\ store' = createSecureFile(store, hashedPassCode, sharedKey, fileId)
  /\ dbCalls' = Append(dbCalls, [op |-> "createSecureFile", key |-> sharedKey,
                                 fileId |-> fileId, ok |-> TRUE])
  /\ out' = out \o <<Stop("File successfully uploaded!", 0),
                     Note("Share the passcode and shared key to the user who will download the file", "info")>>
  /\ spinning' = FALSE
  /\ issued' = [k \in DOMAIN issued \cup {sharedKey} |->
                  IF k = sharedKey THEN [passcode |-> passcode, fileId |-> fileId]
                  ELSE issued[k]]
  /\ pc' = "outro"
  /\ UNCHANGED <<nextKey, nextFileId, runs, action, locals, escaped, cause, driveCalls,
                 store0, shownKeys, failedKeys, reported>>

\* Faulty variant: createSecureFile is awaited outside the try block.
CreateSecureFileUncaught(err) ==
  /\ pc = "createSecureFile"
  /\ dbCalls' = Append(dbCalls, [op |-> "createSecureFile", key |-> sharedKey,
                                 fileId |-> fileId, ok |-> FALSE])
  /\ cause' = "orphan"
  /\ pc' = "crashed"
  /\ escaped' = "RecordWriteFailure"
  /\ UNCHANGED <<store, nextKey, nextFileId, runs, action, locals, spinning, out,
                 driveCalls, store0, history>>

CreateSecureFileFails(err) ==
  /\ pc = "createSecureFile"
  /\ dbCalls' = Append(dbCalls, [op |-> "createSecureFile", key |-> sharedKey,
                                 fileId |-> fileId, ok |-> FALSE])
  /\ cause' = "orphan"
  /\ UploadCatch(err)
  /\ UNCHANGED <<store, nextKey, nextFileId, runs, action, locals, escaped, driveCalls,
                 store0, history>>

CreateSecureFile ==
  \/ CreateSecureFileOk
  \/ \E err \in Errors : CreateSecureFileFails(err)


\* -------------------------------------------------------------- download
\* The two prompts of handleFileDownload, then s.start.
AskCredentials ==
  /\ pc = "askCredentials"
  /\ \E k \in EnteredKeys : sharedKey' = k
  /\ \E p \in Passcodes : enteredPasscode' = p
  /\ out' = out \o <<Start("Varifying passcode...")>>
  /\ spinning' = TRUE
  /\ pc' = "getSecureFile"
  /\ UNCHANGED <<store, nextKey, nextFileId, runs, action, passcode, hashedPassCode, file,
                 validatePassCode, fileId, fileName, escaped, cause,
                 driveCalls, dbCalls, store0, history>>

GetSecureFile ==
  /\ pc = "getSecureFile"
  /\ file' = getSecureFile(store, sharedKey)
  /\ dbCalls' = Append(dbCalls, [op |-> "getSecureFile", key |-> sharedKey,
                                 fileId |-> 0, ok |-> TRUE])
  /\ IF getSecureFile(store, sharedKey) = NoRecord
       THEN /\ out' = out \o <<Stop("Wrong shared key!", 0)>>
            /\ spinning' = FALSE
            /\ cause' = "nokey"
            /\ pc' = "outro"
       ELSE /\ pc' = "comparePasscode"
            /\ UNCHANGED <<out, spinning, cause>>
  /\ UNCHANGED <<store, nextKey, nextFileId, runs, action, passcode, sharedKey,
                 hashedPassCode, enteredPasscode, validatePassCode, fileId,
                 fileName, escaped, driveCalls, store0, history>>

\* Faulty variant: the result of comparePasscode is not tested.
ComparePasscodeUnchecked ==
  /\ pc = "comparePasscode"
  /\ validatePassCode' = comparePasscode(enteredPasscode, file.hashedPassCode)
  /\ out' = out \o <<Stop("Success!", 0), Start("Downloading...")>>
  /\ spinning' = TRUE
  /\ fileId' = file.fileId
  /\ pc' = "getFileMetadata"
  /\ UNCHANGED <<store, nextKey, nextFileId, runs, action, passcode, sharedKey,
                 hashedPassCode, enteredPasscode, file, fileName, escaped,
                 cause, driveCalls, dbCalls, store0, history>>

ComparePasscode ==
  /\ pc = "comparePasscode"
  /\ validatePassCode' = comparePasscode(enteredPasscode, file.hashedPassCode)
  /\ IF ~comparePasscode(enteredPasscode, file.hashedPassCode)
       THEN /\ out' = out \o <<Stop("Wrong passcode!", 0)>>
            /\ spinning' = FALSE
            /\ cause' = "badpass"
            /\ pc' = "outro"
            /\ UNCHANGED fileId
       ELSE /\ out' = out \o <<Stop("Success!", 0), Start("Downloading...")>>
            /\ spinning' = TRUE
            /\ fileId' = file.fileId
            /\ pc' = "getFileMetadata"
            /\ UNCHANGED cause
  /\ UNCHANGED <<store, nextKey, nextFileId, runs, action, passcode, sharedKey,
                 hashedPassCode, enteredPasscode, file, fileName, escaped,
                 driveCalls, dbCalls, store0, history>>

\* Faulty variant: the success message is printed after the try statement.
DownloadCatchStopped(err) ==
  /\ out' = out \o <<ConsoleError("Error downloading file:", err),
                     Note("Failed to download file", "error"),
                     Stop("File downloaded to: ", fileName)>>
  /\ spinning' = FALSE
  /\ pc' = "outro"

\* The catch block of handleFileDownload: it does not stop the spinner.
DownloadCatch(err) ==
  /\ out' = out \o <<ConsoleError("Error downloading file:", err),
                     Note("Failed to download file", "error")>>
  /\ UNCHANGED spinning
  /\ pc' = "outro"

GetFileMetadataOk ==
  /\ pc = "getFileMetadata"
  /\ driveCalls' = Append(driveCalls, [op |-> "getFileMetadata", handle |-> fileId, ok |-> TRUE])
  /\ fileName' = fileId
  /\ pc' = "downloadFile"
  /\ UNCHANGED <<store, nextKey, nextFileId, runs, action, passcode, sharedKey,
                 hashedPassCode, enteredPasscode, file, validatePassCode,
                 fileId, spinning, out, escaped, cause, dbCalls, store0,
                 history>>

GetFileMetadataFails(err) ==
  /\ pc = "getFileMetadata"
  /\ driveCalls' = Append(driveCalls, [op |-> "getFileMetadata", handle |-> fileId, ok |-> FALSE])
  /\ cause' = "metadatafail"
  /\ DownloadCatch(err)
  /\ UNCHANGED <<store, nextKey, nextFileId, runs, action, locals, escaped, dbCalls,
                 store0, history>>

\* getFileMetadata resolves to an empty name: the handler throws.
GetFileMetadataEmpty ==
  /\ pc = "getFileMetadata"
  /\ driveCalls' = Append(driveCalls, [op |-> "getFileMetadata", handle |-> fileId, ok |-> TRUE])
  /\ cause' = "emptyname"
  /\ DownloadCatch(FileNameError)
  /\ UNCHANGED <<store, nextKey, nextFileId, runs, action, locals, escaped, dbCalls,
                 store0, history>>

GetFileMetadata ==
  \/ GetFileMetadataOk
  \/ GetFileMetadataEmpty
  \/ \E err \in Errors : GetFileMetadataFails(err)

DownloadFileOk ==
  /\ pc = "downloadFile"
  /\ driveCalls' = Append(driveCalls, [op |-> "downloadFile", handle |-> fileId, ok |-> TRUE])
  /\ out' = out \o <<Stop("File downloaded to: ", fileName)>>
  /\ spinning' = FALSE
  /\ pc' = "outro"
  /\ UNCHANGED <<store, nextKey, nextFileId, runs, action, locals, escaped, cause,
                 dbCalls, store0, history>>

DownloadFileFails(err) ==
  /\ pc = "downloadFile"
  /\ driveCalls' = Append(driveCalls, [op |-> "downloadFile", handle |-> fileId, ok |-> FALSE])
  /\ cause' = "downloadfail"
  /\ DownloadCatch(err)
  /\ UNCHANGED <<store, nextKey, nextFileId, runs, action, locals, escaped, dbCalls,
                 store0, history>>

DownloadFile ==
  \/ DownloadFileOk
  \/ \E err \in Errors : DownloadFileFails(err)

\* ------------------------------------------------------------------ specs
Step ==
  \/ GetFilePathAndPassCode
  \/ HashPasscode
  \/ UploadFile
  \/ CreateSecureFile
  \/ AskCredentials
  \/ GetSecureFile
  \/ ComparePasscode
  \/ GetFileMetadata
  \/ DownloadFile
  \/ Outro

Next == Run \/ Step

Spec == Init /\ [][Next]_vars

\* Every awaited call returns or throws, and the handler then continues.
FairSpec == Spec /\ WF_vars(Step)


\* ----------------------------------------------------------------- claims
CredentialFailureReports ==
  {<<Stop("Wrong shared key!", 0)>>, <<Stop("Wrong passcode!", 0)>>}

StorageFailureCauses == {"metadatafail", "emptyname", "downloadfail"}

IsDownloadCall(c) == c.op \in {"getFileMetadata", "downloadFile"}

InFlow ==
  {"getFilePathAndPassCode", "hashPasscode", "uploadFile", "createSecureFile",
   "askCredentials", "getSecureFile", "comparePasscode", "getFileMetadata",
   "downloadFile"}

\* C1: a download run that fails on the shared key and a download run that
\* fails on the passcode report the same outcome to the user.
C1_UniformCredentialFailure ==
  \A a \in reported : \A b \in reported :
    (a.cause = "nokey" /\ b.cause = "badpass") => a.report = b.report

\* C2: in a download run the storage backend is contacted only after
\* getSecureFile returned a record for the entered shared key and
\* comparePasscode returned true for the entered passcode against that
\* record's hashedPassCode, and the handle passed is that record's fileId; a
\* run that fails on either factor makes no storage call.
C2_StorageOnlyAfterBothFactors ==
  /\ \A i \in DOMAIN driveCalls :
       IsDownloadCall(driveCalls[i]) =>
         /\ action = "download"
         /\ \E j \in DOMAIN dbCalls :
              dbCalls[j].op = "getSecureFile" /\ dbCalls[j].key = sharedKey
         /\ sharedKey \in DOMAIN store
         /\ file = store[sharedKey]
         /\ validatePassCode
         /\ comparePasscode(enteredPasscode, store[sharedKey].hashedPassCode)
         /\ driveCalls[i].handle = store[sharedKey].fileId
  /\ (action = "download" /\ cause \in {"nokey", "badpass"}) => driveCalls = <<>>

C2_Witness ==
  /\ action = "download"
  /\ pc = "exited"
  /\ Len(driveCalls) = 2
  /\ driveCalls[2].op = "downloadFile"

\* C3: an upload run in which uploadFile fails never calls createSecureFile
\* and leaves the record store unchanged, a later getSecureFile on the key
\* of that run finds no record, and every createSecureFile call follows a
\* successful uploadFile of the same run and carries the file id it returned.
C3_NoRecordWithoutUpload ==
  /\ failedKeys \cap DOMAIN store = {}
  /\ (action = "upload" /\ cause = "uploadfail") =>
       /\ store = store0
       /\ \A j \in DOMAIN dbCalls : dbCalls[j].op # "createSecureFile"
  /\ \A j \in DOMAIN dbCalls :
       dbCalls[j].op = "createSecureFile" =>
         /\ dbCalls[j].key = sharedKey
         /\ \E i \in DOMAIN driveCalls :
              driveCalls[i] = [op |-> "uploadFile", handle |-> dbCalls[j].fileId, ok |-> TRUE]
  /\ (action = "download" /\ sharedKey \in failedKeys
        /\ pc \in {"comparePasscode", "getFileMetadata", "downloadFile", "outro", "exited"}) =>
       (file = NoRecord /\ cause = "nokey")

C3_Witness ==
  /\ action = "download"
  /\ sharedKey \in failedKeys
  /\ pc = "exited"

\* C4: after an upload run with passcode p that completed successfully and
\* issued shared key K, a later download run entering (K, p) passes the
\* credential check and requests from the storage backend exactly the file
\* handle the upload obtained.
C4_RoundTrip ==
  (/\ action = "download"
   /\ sharedKey \in DOMAIN issued
   /\ pc \in {"getFileMetadata", "downloadFile", "outro", "exited"})
  => (enteredPasscode = issued[sharedKey].passcode =>
        /\ validatePassCode
        /\ cause \notin {"nokey", "badpass"}
        /\ fileId = issued[sharedKey].fileId
        /\ \A i \in DOMAIN driveCalls : driveCalls[i].handle = issued[sharedKey].fileId
        /\ (pc # "getFileMetadata" => driveCalls # <<>>))

C4_Witness ==
  /\ action = "download"
  /\ pc = "exited"
  /\ sharedKey \in DOMAIN issued
  /\ enteredPasscode = issued[sharedKey].passcode
  /\ cause = "none"
  /\ Len(driveCalls) = 2

\* C5: an upload run whose uploadFile succeeds and whose createSecureFile
\* fails reports an outcome that differs from the outcome of a run whose
\* remote upload failed.
C5_OrphanDistinguished ==
  \A a \in reported : \A b \in reported :
    (a.cause = "orphan" /\ b.cause = "uploadfail") => a.report # b.report

\* C6: every shared key that has been shown to a user resolves to a stored
\* record once the run that showed it is over.
C6_ShownKeyIsPersisted ==
  pc = "exited" => shownKeys \subseteq DOMAIN store

\* C7: in a download run whose credential check succeeded, a failure of
\* getFileMetadata or of downloadFile is reported with an outcome that is
\* neither credential-failure outcome, and the run never reports the file as
\* downloaded.
C7_StorageFailureDistinct ==
  (/\ action = "download"
   /\ cause \in StorageFailureCauses
   /\ pc \in {"outro", "exited"})
  => /\ validatePassCode
     /\ Report(out) \notin CredentialFailureReports
     /\ \A i \in DOMAIN out :
          /\ <<out[i]>> \notin CredentialFailureReports
          /\ out[i].text # "File downloaded to: "
     /\ \E i \in DOMAIN out : out[i] = Note("Failed to download file", "error")

C7_Witness ==
  /\ action = "download"
  /\ cause = "downloadfail"
  /\ pc = "exited"

\* C8: an upload run with an empty passcode is rejected with InvalidInput:
\* nothing is uploaded to the storage backend and no record is created.
C8_EmptyPasscodeRejected ==
  (/\ action = "upload"
   /\ passcode = EmptyPasscode
   /\ pc \notin {"getFilePathAndPassCode", "hashPasscode"})
  => /\ pc = "crashed"
     /\ escaped = "InvalidInput"
     /\ driveCalls = <<>>
     /\ dbCalls = <<>>
     /\ store = store0
     /\ sharedKey \notin DOMAIN store

C8_Witness ==
  /\ action = "upload"
  /\ passcode = EmptyPasscode
  /\ pc = "crashed"
  /\ DOMAIN store0 # {}

\* C9: every run reaches the outro unless the hasher threw, and no error of
\* the storage backend or of createSecureFile escapes the handler.
C9_RunReachesOutro ==
  /\ [](pc = "crashed" => escaped = "InvalidInput")
  /\ [](escaped \in {"none", "InvalidInput"})
  /\ (pc \in InFlow) ~> (pc \in {"outro", "exited"} \/ escaped = "InvalidInput")

C9_Witness ==
  /\ pc = "exited"
  /\ action = "upload"
  /\ cause = "orphan"

\* C10: whenever handleFileUpload or handleFileDownload has returned, the
\* spinner is stopped.
C10_SpinnerBalanced ==
  pc \in {"outro", "exited"} => ~spinning

====
